---- MODULE Spec2Model ----
(***************************************************************************)
(* Model of licenses/utils.py: the legal-code URL and filename parsers,     *)
(* compute_about_url, the recursive text validators and save_dict_to_pofile.*)
(* Python strings are TLA+ strings (sequences of characters); every string  *)
(* operation of the code is computed character by character.               *)
(* One call of one function is one behaviour: Init draws the function and   *)
(* its arguments, the function's action applies it and records the outcome  *)
(* (a returned value or a raised exception).                                *)
(***************************************************************************)
EXTENDS Integers, Sequences, FiniteSets, TLC

VARIABLES pc, op, arg, ret, pofile

vars == <<pc, op, arg, ret, pofile>>

(***************************************************************************)
(* Bounds of the explored inputs.                                           *)
(***************************************************************************)
MaxUrlPieces == 4
MaxSegments == 2
MaxNodes == 4
MaxExisting == 2
MaxMessages == 2

(***************************************************************************)
(* Python str operations.                                                   *)
(***************************************************************************)
CharAt(s, i) == SubSeq(s, i, i)

startswith(s, p) == Len(s) >= Len(p) /\ SubSeq(s, 1, Len(p)) = p

endswith(s, p) == Len(s) >= Len(p) /\ SubSeq(s, Len(s) - Len(p) + 1, Len(s)) = p

\* `sub in s`
contains(s, sub) ==
    \E i \in 1..(Len(s) - Len(sub) + 1) : SubSeq(s, i, i + Len(sub) - 1) = sub

\* position of the first occurrence of the character c in s, 0 when absent
find(s, c) ==
    IF \E i \in 1..Len(s) : CharAt(s, i) = c
    THEN CHOOSE i \in 1..Len(s) :
            CharAt(s, i) = c /\ \A j \in 1..(i - 1) : CharAt(s, j) # c
    ELSE 0

RECURSIVE split(_, _)
\* s.split(sep) for a one-character separator
split(s, sep) ==
    LET i == find(s, sep)
    IN  IF i = 0 THEN <<s>>
        ELSE <<SubSeq(s, 1, i - 1)>> \o split(SubSeq(s, i + 1, Len(s)), sep)

Whitespace == {" ", "\t", "\n", "\r"}

RECURSIVE lstrip(_)
lstrip(s) ==
    IF s # "" /\ CharAt(s, 1) \in Whitespace THEN lstrip(SubSeq(s, 2, Len(s))) ELSE s

RECURSIVE rstrip(_)
rstrip(s) ==
    IF s # "" /\ CharAt(s, Len(s)) \in Whitespace
    THEN rstrip(SubSeq(s, 1, Len(s) - 1)) ELSE s

\* s.strip(): surrounding whitespace removed on both sides
strip_left_only(s) == lstrip(s)

strip(s) == rstrip(lstrip(s))

posixpath_join_no_separator(a, b) == a \o b

\* posixpath.join(a, b)
posixpath_join(a, b) ==
    IF startswith(b, "/") THEN b
    ELSE IF a = "" \/ endswith(a, "/") THEN a \o b
    ELSE a \o "/" \o b

(***************************************************************************)
(* float(version) and the comparison with 4.0.                              *)
(***************************************************************************)
DigitChars == {"0", "1", "2", "3", "4", "5", "6", "7", "8", "9"}

DigitVal(c) == CHOOSE d \in 0..9 : CharAt("0123456789", d + 1) = c

AllDigits(s) == \A i \in 1..Len(s) : CharAt(s, i) \in DigitChars

RECURSIVE ToInt(_)
ToInt(s) ==
    IF s = "" THEN 0
    ELSE 10 * ToInt(SubSeq(s, 1, Len(s) - 1)) + DigitVal(CharAt(s, Len(s)))

RECURSIVE Pow10(_)
Pow10(n) == IF n = 0 THEN 1 ELSE 10 * Pow10(n - 1)

Unsigned(s) ==
    IF s # "" /\ CharAt(s, 1) \in {"+", "-"} THEN SubSeq(s, 2, Len(s)) ELSE s

\* float(text): [ok |-> the text is a float literal, lt4 |-> its value < 4.0]
float(text) ==
    LET s    == strip(text)
        neg  == s # "" /\ CharAt(s, 1) = "-"
        body == Unsigned(s)
        e1   == find(body, "e")
        e2   == find(body, "E")
        epos == IF e1 # 0 THEN e1 ELSE e2
        mant == IF epos = 0 THEN body ELSE SubSeq(body, 1, epos - 1)
        expo == IF epos = 0 THEN "0" ELSE SubSeq(body, epos + 1, Len(body))
        eneg == expo # "" /\ CharAt(expo, 1) = "-"
        edig == Unsigned(expo)
        dot  == find(mant, ".")
        ip   == IF dot = 0 THEN mant ELSE SubSeq(mant, 1, dot - 1)
        fp   == IF dot = 0 THEN "" ELSE SubSeq(mant, dot + 1, Len(mant))
        wellformed == /\ AllDigits(ip) /\ AllDigits(fp)
                      /\ Len(ip) + Len(fp) >= 1
                      /\ AllDigits(edig) /\ Len(edig) >= 1
        m    == ToInt(ip \o fp)
        k    == (IF eneg THEN 0 - ToInt(edig) ELSE ToInt(edig)) - Len(fp)
    IN  IF body \in {"nan", "NaN", "NAN"} THEN [ok |-> TRUE, lt4 |-> FALSE]
        ELSE IF body \in {"inf", "Inf", "INF", "infinity", "Infinity"}
             THEN [ok |-> TRUE, lt4 |-> neg]
        ELSE IF ~wellformed THEN [ok |-> FALSE, lt4 |-> FALSE]
        ELSE IF neg THEN [ok |-> TRUE, lt4 |-> TRUE]
        ELSE IF k >= 0 THEN [ok |-> TRUE, lt4 |-> m * Pow10(k) < 4]
        ELSE [ok |-> TRUE, lt4 |-> m < 4 * Pow10(0 - k)]

(***************************************************************************)
(* Outcomes of a call.                                                      *)
(***************************************************************************)
Return(v) == [kind |-> "return", value |-> v]

Raise(exc, what) == [kind |-> "raise", exc |-> exc, what |-> what]

NoResult == [kind |-> "none"]

(***************************************************************************)
(* get_license_url_from_legalcode_url                                       *)
(***************************************************************************)
BSD_LEGALCODE_URL == "http://opensource.org/licenses/bsd-license.php"
MIT_LEGALCODE_URL == "http://opensource.org/licenses/mit-license.php"

\* positions where the regex ^(.*)legalcode(\.<language>)? can place the
\* literal: "." does not match a newline, the trailing group is optional and
\* the pattern has no end anchor, so the text after the literal is free
LegalcodePositions(url) ==
    {i \in 1..(Len(url) - 8) :
        /\ SubSeq(url, i, i + 8) = "legalcode"
        /\ \A j \in 1..(i - 1) : CharAt(url, j) # "\n"}

\* the greedy (.*) keeps the longest prefix: the last occurrence of the literal
regex_group1_first(url) ==
    LET P == LegalcodePositions(url)
        i == CHOOSE p \in P : \A q \in P : p <= q
    IN  SubSeq(url, 1, i - 1)

regex_group1_with_literal(url) ==
    LET P == LegalcodePositions(url)
        i == CHOOSE p \in P : \A q \in P : q <= p
    IN  SubSeq(url, 1, i + 8)

regex_group1(url) ==
    LET P == LegalcodePositions(url)
        i == CHOOSE p \in P : \A q \in P : q <= p
    IN  SubSeq(url, 1, i - 1)

get_license_url_from_legalcode_url(legalcode_url) ==
    IF legalcode_url = BSD_LEGALCODE_URL
    THEN Return("http://creativecommons.org/licenses/BSD/")
    ELSE IF legalcode_url = MIT_LEGALCODE_URL
    THEN Return("http://creativecommons.org/licenses/MIT/")
    ELSE IF LegalcodePositions(legalcode_url) # {}
    THEN Return(regex_group1(legalcode_url))
    ELSE Raise("ValueError", "regex did not match " \o legalcode_url)

(***************************************************************************)
(* compute_about_url                                                        *)
(***************************************************************************)
about_with_jurisdiction_always(license_code, version, jurisdiction_code) ==
    LET base == "http://creativecommons.org"
        prefix == IF license_code \in {"CC0", "zero", "mark"}
                  THEN "publicdomain" ELSE "licenses"
        mostly == base \o "/" \o prefix \o "/" \o license_code \o "/" \o version \o "/"
    IN  mostly \o jurisdiction_code \o "/"

compute_about_url(license_code, version, jurisdiction_code) ==
    LET base == "http://creativecommons.org"
        prefix == IF license_code \in {"CC0", "zero", "mark"}
                  THEN "publicdomain" ELSE "licenses"
        mostly == base \o "/" \o prefix \o "/" \o license_code \o "/" \o version \o "/"
    IN  IF license_code \in {"BSD", "MIT"}
        THEN base \o "/licenses/" \o license_code \o "/"
        ELSE IF contains(license_code, "GPL")
        THEN base \o "/licenses/" \o license_code \o "/" \o version \o "/"
        ELSE IF jurisdiction_code # ""
        THEN mostly \o jurisdiction_code \o "/"
        ELSE mostly

(***************************************************************************)
(* parse_legalcode_filename                                                 *)
(***************************************************************************)
path_base_always_licenses(zero) == "licenses"

\* path_base as set by the two branches of `if license.startswith("zero")`
path_base(zero) == IF zero THEN "publicdomain" ELSE "licenses"

\* the record built at the end, from the locals of the function; None and ""
\* are both false and `x or ""` maps both to "", so None is written ""
parse_data(license, version, zero, jurisdiction, language) ==
    LET license_code_for_url == license
        license_code_to_return == IF zero THEN "CC0" ELSE license
        u1  == posixpath_join("http://creativecommons.org", path_base(zero))
        u2  == posixpath_join(u1, license_code_for_url)
        u3  == posixpath_join(u2, version)
        u4  == IF jurisdiction # "" THEN posixpath_join(u3, jurisdiction) ELSE u3
        url == IF language # ""
               THEN posixpath_join(u4, "legalcode." \o language)
               ELSE u4 \o "/"
    IN  [license_code |-> license_code_to_return,
         version |-> version,
         jurisdiction_code |-> jurisdiction,
         language_code |-> language,
         url |-> url,
         about_url |-> compute_about_url(license_code_for_url, version, jurisdiction)]

\* the jurisdiction test of the non-zero branch: parts and float(version) < 4.0
takes_jurisdiction_any_version(version) == TRUE

takes_jurisdiction(version) == float(version).lt4

\* the version is converted only in the non-zero branch and only when a
\* segment follows it
converts_version_always(zero, rest) == TRUE

converts_version(zero, rest) == ~zero /\ rest # <<>>

parse_legalcode_filename(filename) ==
    LET basename == IF endswith(filename, ".html")
                    THEN SubSeq(filename, 1, Len(filename) - 5) ELSE filename
        parts == split(basename, "_")
        token == parts[1]
        license == IF token = "samplingplus" THEN "sampling+"
                   ELSE IF token = "nc-samplingplus" THEN "nc-sampling+"
                   ELSE token
        version == parts[2]
        rest == SubSeq(parts, 3, Len(parts))
        zero == startswith(license, "zero")
        hasj == ~zero /\ rest # <<>> /\ takes_jurisdiction(version)
        jurisdiction == IF hasj THEN rest[1] ELSE ""
        rest2 == IF hasj THEN Tail(rest) ELSE rest
        language == IF rest2 # <<>> THEN rest2[1] ELSE ""
    IN  IF Len(parts) < 2 THEN Raise("IndexError", "pop from empty list")
        ELSE IF converts_version(zero, rest) /\ ~float(version).ok
        THEN Raise("ValueError", "could not convert string to float: " \o version)
        ELSE Return(parse_data(license, version, zero, jurisdiction, language))

(***************************************************************************)
(* validate_list_is_all_text / validate_dictionary_is_all_text              *)
(* A Python value is [t |-> its exact type, s |-> its text, items |-> its   *)
(* elements]; the items of a dict are <<[k |-> key, v |-> value], ...>> in   *)
(* iteration order.                                                         *)
(***************************************************************************)
Str(text) == [t |-> "str", s |-> text, items |-> <<>>]

NavigableString(text) == [t |-> "NavigableString", s |-> text, items |-> <<>>]

\* a value of any other type, with its printed form
Other(type, text) == [t |-> type, s |-> text, items |-> <<>>]

ListOf(items) == [t |-> "list", s |-> "", items |-> items]

DictOf(items) == [t |-> "dict", s |-> "", items |-> items]

\* str(value) of a NavigableString: a plain str of the same text
navigable_kept(value) == value

str(value) == Str(value.s)

RECURSIVE validate_list_items(_), validate_dict_items(_)

\* the loop of validate_list_is_all_text over the elements still to visit
validate_list_items(l) ==
    IF l = <<>> THEN Return(<<>>)
    ELSE LET value == Head(l)
             new == IF value.t = "NavigableString" THEN Return(str(value))
                    ELSE IF value.t \notin {"str", "list", "dict"}
                    THEN Raise("ValueError", [type |-> value.t, value |-> value])
                    ELSE IF value.t = "list"
                    THEN LET r == validate_list_items(value.items)
                         IN  IF r.kind = "raise" THEN r ELSE Return(ListOf(r.value))
                    ELSE IF value.t = "dict"
                    THEN LET r == validate_dict_items(value.items)
                         IN  IF r.kind = "raise" THEN r ELSE Return(DictOf(r.value))
                    ELSE Return(value)
         IN  IF new.kind = "raise" THEN new
             ELSE LET more == validate_list_items(Tail(l))
                  IN  IF more.kind = "raise" THEN more
                      ELSE Return(<<new.value>> \o more.value)

\* the loop of validate_dictionary_is_all_text over the items still to visit;
\* the keys are str, so `assert isinstance(k, str)` passes
validate_dict_items(d) ==
    IF d = <<>> THEN Return(<<>>)
    ELSE LET k == Head(d).k
             v == Head(d).v
             new == IF v.t = "NavigableString" THEN Return(str(v))
                    ELSE IF v.t \notin {"str", "dict", "list"}
                    THEN Raise("ValueError", [key |-> k, type |-> v.t, value |-> v])
                    ELSE IF v.t = "dict"
                    THEN LET r == validate_dict_items(v.items)
                         IN  IF r.kind = "raise" THEN r ELSE Return(DictOf(r.value))
                    ELSE IF v.t = "list"
                    THEN LET r == validate_list_items(v.items)
                         IN  IF r.kind = "raise" THEN r ELSE Return(ListOf(r.value))
                    ELSE Return(v)
         IN  IF new.kind = "raise" THEN new
             ELSE LET more == validate_dict_items(Tail(d))
                  IN  IF more.kind = "raise" THEN more
                      ELSE Return(<<[k |-> k, v |-> new.value]>> \o more.value)

validate_list_is_all_text(l) ==
    LET r == validate_list_items(l.items)
    IN  IF r.kind = "raise" THEN r ELSE Return(ListOf(r.value))

validate_dictionary_is_all_text(d) ==
    LET r == validate_dict_items(d.items)
    IN  IF r.kind = "raise" THEN r ELSE Return(DictOf(r.value))

(***************************************************************************)
(* save_dict_to_pofile                                                      *)
(***************************************************************************)
POEntry(msgid, msgstr) == [msgid |-> msgid, msgstr |-> msgstr]

RECURSIVE save_items(_, _)
\* the loop over messages.items(): every entry appended before a value
\* without .strip() is met stays in the file
save_items(po, items) ==
    IF items = <<>> THEN [pofile |-> po, outcome |-> Return("None")]
    ELSE LET message_key == Head(items).k
             value == Head(items).v
         IN  IF value.t \notin {"str", "NavigableString"}
             THEN [pofile |-> po, outcome |-> Raise("AttributeError", message_key)]
             ELSE save_items(Append(po, POEntry(message_key, strip(value.s))),
                             Tail(items))

save_dict_to_pofile(po, messages) == save_items(po, messages.items)

(***************************************************************************)
(* The explored inputs.                                                     *)
(***************************************************************************)
RECURSIVE Concat(_)
Concat(seq) == IF seq = <<>> THEN "" ELSE Head(seq) \o Concat(Tail(seq))

SeqsUpTo(S, n) == UNION {[1..k -> S] : k \in 0..n}

LanguageCodes == {"es", "zh-Hans"}

UrlPieces == {"http://example.org/", "legalcode", "/", "nomatch"}
                \cup {"." \o L : L \in LanguageCodes}

Urls == {BSD_LEGALCODE_URL, MIT_LEGALCODE_URL}
            \cup {Concat(ps) : ps \in SeqsUpTo(UrlPieces, MaxUrlPieces)}

LicenseTokens == {"by", "by-nc-nd", "samplingplus", "nc-samplingplus", "zero",
                  "zeroplus", "mark", "CC0", "BSD", "MIT", "GPL", "LGPL"}

Versions == {"1.0", "2.5", "3.0", "4.0", "4", "x.y"}

Segments == {"nl", "es", "zh-Hans"}

RECURSIVE JoinUnderscore(_)
JoinUnderscore(seq) ==
    IF seq = <<>> THEN "" ELSE "_" \o Head(seq) \o JoinUnderscore(Tail(seq))

Basenames == LicenseTokens
                \cup {tok \o "_" \o v \o JoinUnderscore(segs) :
                        tok \in LicenseTokens, v \in Versions,
                        segs \in SeqsUpTo(Segments, MaxSegments)}

Filenames == Basenames \cup {b \o ".html" : b \in Basenames}

LicenseCodes == {"by", "sampling+", "zero", "CC0", "mark", "BSD", "MIT", "GPL", "LGPL"}

AboutArgs == [license_code : LicenseCodes,
              version : {"", "1.0", "2.0", "4.0"},
              jurisdiction_code : {"", "nl", "es"}]

Leaves == {Str("a"), NavigableString("b"), Other("int", "1"), Other("NoneType", "None")}

Key(i) == "k" \o CharAt("123456789", i)

Keyed(f) == [i \in 1..Len(f) |-> [k |-> Key(i), v |-> f[i]]]

RECURSIVE Trees(_), Forests(_)
\* the values made of exactly n nodes
Trees(n) ==
    (IF n = 1 THEN Leaves ELSE {})
        \cup {ListOf(f) : f \in Forests(n - 1)}
        \cup {DictOf(Keyed(f)) : f \in Forests(n - 1)}

\* the sequences of values made of exactly m nodes together
Forests(m) ==
    IF m = 0 THEN {<<>>}
    ELSE UNION {{<<t>> \o f : t \in Trees(k), f \in Forests(m - k)} : k \in 1..m}

Values == UNION {Trees(n) : n \in 1..MaxNodes}

Lists == {v \in Values : v.t = "list"}

Dicts == {v \in Values : v.t = "dict"}

MessageKeys == {"title", "body", "note"}

MessageValues == {Str(" a "), Str("b"), Str("\tc d\n"), DictOf(<<>>)}

IsInjective(f) == \A i, j \in DOMAIN f : f[i] = f[j] => i = j

Messages ==
    UNION {{DictOf([i \in 1..Len(ks) |-> [k |-> ks[i], v |-> vs[i]]]) :
                vs \in [1..Len(ks) -> MessageValues]} :
            ks \in {q \in SeqsUpTo(MessageKeys, MaxMessages) : IsInjective(q)}}

ExistingEntries == {POEntry("title", "old"), POEntry("x", " y ")}

ExistingFiles == SeqsUpTo(ExistingEntries, MaxExisting)

(***************************************************************************)
(* The calls.                                                               *)
(***************************************************************************)
Init ==
    /\ pc = "call"
    /\ ret = NoResult
    /\ \/ op = "get_license_url_from_legalcode_url" /\ arg \in Urls /\ pofile = <<>>
       \/ op = "parse_legalcode_filename" /\ arg \in Filenames /\ pofile = <<>>
       \/ op = "compute_about_url" /\ arg \in AboutArgs /\ pofile = <<>>
       \/ op = "validate_list_is_all_text" /\ arg \in Lists /\ pofile = <<>>
       \/ op = "validate_dictionary_is_all_text" /\ arg \in Dicts /\ pofile = <<>>
       \/ op = "save_dict_to_pofile" /\ arg \in Messages /\ pofile \in ExistingFiles

GetLicenseUrlFromLegalcodeUrl ==
    /\ pc = "call" /\ op = "get_license_url_from_legalcode_url"
    /\ ret' = get_license_url_from_legalcode_url(arg)
    /\ pc' = "done"
    /\ UNCHANGED <<op, arg, pofile>>

ParseLegalcodeFilename ==
    /\ pc = "call" /\ op = "parse_legalcode_filename"
    /\ ret' = parse_legalcode_filename(arg)
    /\ pc' = "done"
    /\ UNCHANGED <<op, arg, pofile>>

ComputeAboutUrl ==
    /\ pc = "call" /\ op = "compute_about_url"
    /\ ret' = Return(compute_about_url(arg.license_code, arg.version,
                                       arg.jurisdiction_code))
    /\ pc' = "done"
    /\ UNCHANGED <<op, arg, pofile>>

ValidateListIsAllText ==
    /\ pc = "call" /\ op = "validate_list_is_all_text"
    /\ ret' = validate_list_is_all_text(arg)
    /\ pc' = "done"
    /\ UNCHANGED <<op, arg, pofile>>

ValidateDictionaryIsAllText ==
    /\ pc = "call" /\ op = "validate_dictionary_is_all_text"
    /\ ret' = validate_dictionary_is_all_text(arg)
    /\ pc' = "done"
    /\ UNCHANGED <<op, arg, pofile>>

SaveDictToPofile ==
    /\ pc = "call" /\ op = "save_dict_to_pofile"
    /\ LET r == save_dict_to_pofile(pofile, arg)
       IN  pofile' = r.pofile /\ ret' = r.outcome
    /\ pc' = "done"
    /\ UNCHANGED <<op, arg>>

Next ==
    \/ GetLicenseUrlFromLegalcodeUrl
    \/ ParseLegalcodeFilename
    \/ ComputeAboutUrl
    \/ ValidateListIsAllText
    \/ ValidateDictionaryIsAllText
    \/ SaveDictToPofile

Spec == Init /\ [][Next]_vars

(***************************************************************************)
(* Vocabulary of the properties.                                            *)
(***************************************************************************)
Returned(f) == pc = "done" /\ op = f /\ ret.kind = "return"

Called(f) == pc = "done" /\ op = f

LegacyUrls == {BSD_LEGALCODE_URL, MIT_LEGALCODE_URL}

LanguageCodeChars ==
    {CharAt("abcdefghijklmnopqrstuvwxyzABCDEFGHIJKLMNOPQRSTUVWXYZ_-", i) : i \in 1..54}

\* the text is "legalcode" or "legalcode." followed by language-code characters
IsLegalcodeSuffix(text) ==
    \/ text = "legalcode"
    \/ /\ startswith(text, "legalcode.")
       /\ \A j \in 11..Len(text) : CharAt(text, j) \in LanguageCodeChars

EndsWithLegalcodeSuffix(url) ==
    \E i \in 1..Len(url) : IsLegalcodeSuffix(SubSeq(url, i, Len(url)))

\* the segments of a filename, as written
SegmentsOf(filename) ==
    split(IF endswith(filename, ".html")
          THEN SubSeq(filename, 1, Len(filename) - 5) ELSE filename, "_")

TokenOf(filename) == SegmentsOf(filename)[1]

ZeroToken(filename) == startswith(TokenOf(filename), "zero")

\* the tokens whose url and about_url are built under the same path base
SamePathBase(filename) ==
    /\ TokenOf(filename) \notin {"mark", "CC0"}
    /\ TokenOf(filename) = "zero" \/ ~ZeroToken(filename)

\* C1: get_license_url_from_legalcode_url raises a ValueError carrying the
\* input URL for every URL that is not a legacy URL and does not end with
\* 'legalcode' or 'legalcode.<language-code>'.
C1_RaisesWhenSuffixAbsent ==
    (Called("get_license_url_from_legalcode_url")
        /\ arg \notin LegacyUrls /\ ~EndsWithLegalcodeSuffix(arg))
    => (ret.kind = "raise" /\ ret.exc = "ValueError" /\ contains(ret.what, arg))

\* C2: for every URL P + 'legalcode' or P + 'legalcode.' + L with L a language
\* code, not a legacy URL, the function returns exactly P, also when P itself
\* contains 'legalcode'.
C2_StripsTrailingLegalcode ==
    (Called("get_license_url_from_legalcode_url") /\ arg \notin LegacyUrls)
    => \A i \in 0..Len(arg) :
          LET P == SubSeq(arg, 1, i)
              suffix == SubSeq(arg, i + 1, Len(arg))
          IN  (suffix = "legalcode"
                 \/ \E L \in LanguageCodes : suffix = "legalcode." \o L)
              => ret = Return(P)

C2_Witness ==
    /\ Called("get_license_url_from_legalcode_url")
    /\ arg = "http://example.org/legalcode/legalcode"
    /\ ret = Return("http://example.org/legalcode/")

VersionsBelow4 == {"1.0", "2.5", "3.0"}

VersionsFrom4 == {"4.0", "4"}

MalformedVersions == {"x.y"}

\* the segments written after the version
AfterVersion(filename) == SubSeq(SegmentsOf(filename), 3, Len(SegmentsOf(filename)))

\* C4: jurisdiction_code is non-empty only when the version is a number less
\* than 4.0; for a version of 4.0 or more, and for any token starting with
\* 'zero', the segment after the version is taken as language_code and never
\* as jurisdiction.
C4_JurisdictionOnlyBelow4 ==
    Returned("parse_legalcode_filename")
    => /\ ret.value.jurisdiction_code # ""
            => (ret.value.version \in VersionsBelow4 /\ ~ZeroToken(arg))
       /\ ((ret.value.version \in VersionsFrom4 \/ ZeroToken(arg))
              /\ AfterVersion(arg) # <<>>)
            => /\ ret.value.jurisdiction_code = ""
               /\ ret.value.language_code = AfterVersion(arg)[1]

C4_Witness ==
    /\ Returned("parse_legalcode_filename")
    /\ arg = "by_4.0_es.html"
    /\ ret.value.jurisdiction_code = ""
    /\ ret.value.language_code = "es"

\* C5: a token starting with 'zero' gives license_code 'CC0' and a url under
\* the 'publicdomain' path base; every other token gives the literal
\* (sampling-remapped) token and a url under the 'licenses' path base.
C5_ZeroIsPublicDomain ==
    Returned("parse_legalcode_filename")
    => IF ZeroToken(arg)
       THEN /\ ret.value.license_code = "CC0"
            /\ startswith(ret.value.url, "http://creativecommons.org/publicdomain/")
       ELSE /\ ret.value.license_code =
                   (CASE TokenOf(arg) = "samplingplus" -> "sampling+"
                      [] TokenOf(arg) = "nc-samplingplus" -> "nc-sampling+"
                      [] OTHER -> TokenOf(arg))
            /\ startswith(ret.value.url, "http://creativecommons.org/licenses/")

C5_Witness ==
    /\ Returned("parse_legalcode_filename")
    /\ arg = "zeroplus_1.0_es.html"
    /\ ret.value.license_code = "CC0"
    /\ ret.value.url = "http://creativecommons.org/publicdomain/zeroplus/1.0/legalcode.es"

\* C6 (as stated): parse_legalcode_filename raises for every filename whose
\* version segment is not a valid float, whatever the token and whether or not
\* further segments follow.
C6_MalformedVersionRaises ==
    (Called("parse_legalcode_filename")
        /\ Len(SegmentsOf(arg)) >= 2 /\ SegmentsOf(arg)[2] \in MalformedVersions)
    => ret.kind = "raise"

\* C6 (amended): for a filename whose version segment is not a valid float,
\* parse_legalcode_filename raises a ValueError exactly when the token does not
\* start with 'zero' and a further segment follows the version; otherwise it
\* returns a record carrying the version text unchanged.
C6_MalformedVersionRaisesWhenConverted ==
    (Called("parse_legalcode_filename")
        /\ Len(SegmentsOf(arg)) >= 2 /\ SegmentsOf(arg)[2] \in MalformedVersions)
    => IF ~ZeroToken(arg) /\ AfterVersion(arg) # <<>>
       THEN ret.kind = "raise" /\ ret.exc = "ValueError"
       ELSE ret.kind = "return" /\ ret.value.version = SegmentsOf(arg)[2]

C6_Witness ==
    /\ Called("parse_legalcode_filename")
    /\ arg = "by_x.y_es.html"
    /\ ret.kind = "raise"

\* C7 (as stated): for every license_code, BSD, MIT and codes containing 'GPL'
\* included, a non-empty jurisdiction_code ends the URL as '<jurisdiction>/';
\* with an empty one the URL ends with the version segment, or with the
\* license code for BSD and MIT.
C7_JurisdictionAlwaysLast ==
    Returned("compute_about_url")
    => IF arg.jurisdiction_code # ""
       THEN endswith(ret.value, "/" \o arg.jurisdiction_code \o "/")
       ELSE IF arg.license_code \in {"BSD", "MIT"}
       THEN endswith(ret.value, "/" \o arg.license_code \o "/")
       ELSE endswith(ret.value, "/" \o arg.version \o "/")

\* C7 (amended): a non-empty jurisdiction_code ends the URL as
\* '<jurisdiction>/' for every license_code other than BSD, MIT and the codes
\* containing 'GPL'; for those the jurisdiction is left out.  Without a
\* jurisdiction in the URL it ends with the version segment, or with the
\* license code for BSD and MIT.
C7_JurisdictionLastUnlessCodeLicense ==
    Returned("compute_about_url")
    => IF arg.license_code \in {"BSD", "MIT"}
       THEN endswith(ret.value, "/licenses/" \o arg.license_code \o "/")
       ELSE IF contains(arg.license_code, "GPL") \/ arg.jurisdiction_code = ""
       THEN endswith(ret.value, "/" \o arg.license_code \o "/" \o arg.version \o "/")
       ELSE endswith(ret.value, "/" \o arg.license_code \o "/" \o arg.version
                                    \o "/" \o arg.jurisdiction_code \o "/")

C7_Witness ==
    /\ Returned("compute_about_url")
    /\ arg = [license_code |-> "LGPL", version |-> "2.0", jurisdiction_code |-> "nl"]
    /\ ret.value = "http://creativecommons.org/licenses/LGPL/2.0/"

AllowedTypes == {"str", "NavigableString", "list", "dict"}

\* the elements directly inside a list or a dict, in iteration order
Children(v) ==
    IF v.t = "dict" THEN [i \in 1..Len(v.items) |-> v.items[i].v]
    ELSE IF v.t = "list" THEN v.items
    ELSE <<>>

RECURSIVE PreOrder(_)
\* every element below v: each element, then what it contains, left to right
PreOrder(v) ==
    LET RECURSIVE Walk(_)
        Walk(cs) == IF cs = <<>> THEN <<>>
                    ELSE <<Head(cs)>> \o PreOrder(Head(cs)) \o Walk(Tail(cs))
    IN  Walk(Children(v))

Disallowed(v) == {i \in 1..Len(PreOrder(v)) : PreOrder(v)[i].t \notin AllowedTypes}

FirstDisallowed(v) ==
    PreOrder(v)[CHOOSE i \in Disallowed(v) : \A j \in Disallowed(v) : i <= j]

RECURSIVE Plain(_)
\* the same shape with every text-like leaf as a plain string of the same text
Plain(v) ==
    IF v.t \in {"str", "NavigableString"} THEN [t |-> "str", s |-> v.s, items |-> <<>>]
    ELSE IF v.t = "list"
    THEN [t |-> "list", s |-> "", items |-> [i \in 1..Len(v.items) |-> Plain(v.items[i])]]
    ELSE [t |-> "dict", s |-> "",
          items |-> [i \in 1..Len(v.items) |->
                        [k |-> v.items[i].k, v |-> Plain(v.items[i].v)]]]

Validators == {"validate_list_is_all_text", "validate_dictionary_is_all_text"}

C8_WitnessConverted ==
    /\ Called("validate_dictionary_is_all_text")
    /\ arg = DictOf(<<[k |-> "k1", v |-> ListOf(<<NavigableString("b")>>)],
                      [k |-> "k2", v |-> Str("a")]>>)
    /\ ret = Return(DictOf(<<[k |-> "k1", v |-> ListOf(<<Str("b")>>)],
                             [k |-> "k2", v |-> Str("a")]>>))

AllStrings(messages) ==
    \A i \in 1..Len(messages.items) : messages.items[i].v.t = "str"

\* t is s without its surrounding whitespace
IsTrimOf(t, s) ==
    /\ t = "" \/ (CharAt(t, 1) \notin Whitespace /\ CharAt(t, Len(t)) \notin Whitespace)
    /\ \E i \in 0..Len(s) :
          /\ i + Len(t) <= Len(s)
          /\ SubSeq(s, i + 1, i + Len(t)) = t
          /\ \A j \in (1..i) \cup ((i + Len(t) + 1)..Len(s)) : CharAt(s, j) \in Whitespace

\* C9: save_dict_to_pofile, called with a mapping whose values are all
\* strings, appends exactly one entry per key, in iteration order, with msgid
\* the key and msgstr the value trimmed of surrounding whitespace, and leaves
\* the entries already in the file unchanged and in place.
C9_AppendsOneEntryPerKey ==
    [][(SaveDictToPofile /\ AllStrings(arg))
        => /\ Len(pofile') = Len(pofile) + Len(arg.items)
           /\ SubSeq(pofile', 1, Len(pofile)) = pofile
           /\ \A i \in 1..Len(arg.items) :
                 /\ pofile'[Len(pofile) + i].msgid = arg.items[i].k
                 /\ IsTrimOf(pofile'[Len(pofile) + i].msgstr, arg.items[i].v.s)
           /\ ret' = Return("None")]_vars

C9_Witness ==
    /\ Called("save_dict_to_pofile")
    /\ arg = DictOf(<<[k |-> "note", v |-> Str("\tc d\n")], [k |-> "title", v |-> Str(" a ")]>>)
    /\ pofile = <<POEntry("x", " y "), POEntry("title", "old"),
                  POEntry("note", "c d"), POEntry("title", "a")>>

\* the license tokens of the round trip: not a code license, and built under
\* the same path base by url and about_url
OrdinaryToken(filename) ==
    /\ TokenOf(filename) \notin {"BSD", "MIT", "CC0", "mark"}
    /\ ~contains(TokenOf(filename), "GPL")
    /\ TokenOf(filename) = "zero" \/ ~ZeroToken(filename)

====
